---- MODULE Spec2Model ----
(***************************************************************************)
(* IntelliDoc-AI: the Gemini summarisation / question-answering pipelines  *)
(* of src/gemini_service.py (Spec), chunk_text on its own (SpecChunk) and  *)
(* the document store of src/database.py (SpecStore) as state machines.    *)
(*                                                                         *)
(* Strings are sequences of Unicode code points, so that str.split,        *)
(* ' '.join, str.strip, len and slicing are computed, not assumed.         *)
(***************************************************************************)
EXTENDS Integers, Sequences, FiniteSets, TLC

\* ------------------------------------------------------------------ bounds
\* Documents hold k full chunks, or k full chunks and one more word:
\* k <= MaxChunks for generate_summary, k <= MaxQAChunks for answer_question.
MaxChunks == 1
MaxQAChunks == 3
\* chunk_text on its own: texts of at most MaxTextLen characters, cut into
\* chunks of at most MaxWords words
MaxTextLen == 5
MaxWords == 3
\* Document Store: runs of at most MaxStoreCalls calls
MaxStoreCalls == 4
\* button clicks in one browser session
MaxClicks == 3

\* --------------------------------------------------------- program constants
MAX_RETRIES == 3
\* RETRY_SLEEP = 1.0 seconds, in milliseconds
RETRY_SLEEP == 1000
\* chunk_text(document_text, 1000) in answer_question
QA_MAX_WORDS == 1000
\* len(relevant) > 4000 / relevant[:4000]
QA_MAX_CHARS == 4000

\* ------------------------------------------------------------------ strings
SP == 32
NL == 10
\* the one-character ellipsis U+2026 appended by answer_question
ELLIPSIS == 8230

\* str.isspace() of a code point (what str.split() and str.strip() use)
Whitespace ==
  {9, 10, 11, 12, 13, 28, 29, 30, 31, 32, 133, 160, 5760, 8232, 8233, 8239, 8287, 12288}
    \cup (8192..8202)

IsSpace(c) == c \in Whitespace

Min(a, b) == IF a < b THEN a ELSE b

\* maximal runs of non-whitespace in s[lo..hi], as <<first, last>> index pairs
RECURSIVE Runs(_, _, _)
Runs(s, lo, hi) ==
  IF lo > hi THEN <<>>
  ELSE IF lo = hi THEN (IF IsSpace(s[lo]) THEN <<>> ELSE << <<lo, lo>> >>)
  ELSE LET mid == (lo + hi) \div 2
           L == Runs(s, lo, mid)
           R == Runs(s, mid + 1, hi)
       IN IF L # <<>> /\ R # <<>> /\ L[Len(L)][2] = mid /\ R[1][1] = mid + 1
          THEN SubSeq(L, 1, Len(L) - 1) \o << <<L[Len(L)][1], R[1][2]>> >> \o Tail(R)
          ELSE L \o R

\* str.split(): the whitespace-delimited words of s, in order
split(s) ==
  LET r == Runs(s, 1, Len(s))
  IN [k \in 1..Len(r) |-> SubSeq(s, r[k][1], r[k][2])]

\* sep.join(parts[lo..hi])
RECURSIVE JoinRange(_, _, _, _)
JoinRange(sep, parts, lo, hi) ==
  IF lo > hi THEN <<>>
  ELSE IF lo = hi THEN parts[lo]
  ELSE LET mid == (lo + hi) \div 2
       IN JoinRange(sep, parts, lo, mid) \o sep \o JoinRange(sep, parts, mid + 1, hi)

\* sep.join(parts)
join(sep, parts) == JoinRange(sep, parts, 1, Len(parts))

\* str.strip(): s without leading and trailing whitespace
strip(s) ==
  LET keep == {k \in 1..Len(s) : ~IsSpace(s[k])}
  IN IF keep = {} THEN <<>>
     ELSE SubSeq(s, CHOOSE a \in keep : \A b \in keep : a <= b,
                    CHOOSE a \in keep : \A b \in keep : a >= b)

\* mutant of PyRange: the last, partial window left out (n // step windows)
PyRange_Floor(n, step) ==
  IF n <= 0 \/ step < 0 THEN <<>> ELSE [k \in 1..(n \div step) |-> (k - 1) * step]

\* mutant of PyRange: range(0, max(n, 1), step), at least one window
PyRange_AtLeastOne(n, step) ==
  IF step < 0 THEN <<>>
  ELSE IF n <= 0 THEN <<0>>
  ELSE [k \in 1..((n + step - 1) \div step) |-> (k - 1) * step]

\* range(0, n, step) of Python for n >= 0 and step # 0, as the list of its
\* values: empty when n = 0, and empty when step < 0 (counting down from 0
\* to n); step = 0 raises ValueError, see ChunkText
PyRange(n, step) ==
  IF n <= 0 \/ step < 0 THEN <<>>
  ELSE [k \in 1..((n + step - 1) \div step) |-> (k - 1) * step]

\* chunk_text(text, max_words), for max_words # 0
chunk_text(text, max_words) ==
  LET words == split(text)
      starts == PyRange(Len(words), max_words)
  IN [k \in 1..Len(starts) |->
        JoinRange(<<SP>>, words, starts[k] + 1, Min(starts[k] + max_words, Len(words)))]

\* ------------------------------------------------------------ configuration
\* chunk_configs of generate_summary
chunk_configs ==
  [short  |-> [max_words |-> 1500, instruction |-> "Write a brief 2-3 sentence summary"],
   medium |-> [max_words |-> 1200, instruction |-> "Write a concise paragraph summary"],
   long   |-> [max_words |-> 1000, instruction |-> "Write a detailed 2-3 paragraph summary"]]

\* config = chunk_configs.get(length, chunk_configs["medium"])
config(len_sel) ==
  IF len_sel \in DOMAIN chunk_configs THEN chunk_configs[len_sel] ELSE chunk_configs["medium"]

\* final_instructions of generate_summary
final_instructions ==
  [short  |-> "Combine these section summaries into a brief 2-3 sentence overview.",
   medium |-> "Combine these section summaries into a comprehensive 1-2 paragraph summary.",
   long   |-> "Combine these section summaries into a detailed 3-4 paragraph summary covering all key points."]

\* final_instructions[length] is a plain subscript: a KeyError for any other key
HasFinalInstruction(len_sel) == len_sel \in DOMAIN final_instructions

\* a prompt string, kept as the f-string's fixed head and its substituted parts
Prompt(head, body) == [head |-> head, body |-> body, question |-> <<>>]

SinglePrompt(len_sel, chunk) == Prompt(config(len_sel).instruction \o " of this document:\n\n", chunk)

MapPrompt(chunk) == Prompt("Summarize this section concisely:\n\n", chunk)

FinalPrompt(len_sel, combined) == Prompt(final_instructions[len_sel] \o ":\n\n", combined)

QAPrompt(document, q) ==
  [head |-> "Based on this document, answer the question briefly and accurately.\n\nDocument: ",
   body |-> document, question |-> q]

\* --------------------------------------------------------------- responses
\* a response object of the service: resp.text is None or a string
NoneText == [is_none |-> TRUE, text |-> <<>>]
Text(s) == [is_none |-> FALSE, text |-> s]

\* `if resp.text:`
Truthy(resp) == ~resp.is_none /\ resp.text # <<>>

\* `(resp.text or "")`
TextOrEmpty(resp) == IF Truthy(resp) THEN resp.text ELSE <<>>

\* mutant of AppendSummary: insert(0, ...) where the code appends
AppendSummary_Prepend(sums, resp) ==
  IF Truthy(resp) THEN <<strip(resp.text)>> \o sums ELSE sums

\* generate_summary's map step: if resp.text: chunk_summaries.append(resp.text.strip())
AppendSummary(sums, resp) == IF Truthy(resp) THEN Append(sums, strip(resp.text)) ELSE sums

\* mutant of SummaryResult: .strip() left out
SummaryResult_NoStrip(resp) == TextOrEmpty(resp)

\* return (resp.text or "").strip() of generate_summary (both paths)
SummaryResult(resp) == strip(TextOrEmpty(resp))

\* mutant of AnswerResult: .strip() left out
AnswerResult_NoStrip(resp) == TextOrEmpty(resp)

\* return (resp.text or "").strip() of answer_question (both paths)
AnswerResult(resp) == strip(TextOrEmpty(resp))

\* mutant of QAContext: chunks[3:] where the code has chunks[:3]
QAContext_LaterChunks(cs) ==
  LET relevant == join(<<NL, NL>>, SubSeq(cs, 4, Len(cs)))
  IN IF Len(relevant) > QA_MAX_CHARS
     THEN SubSeq(relevant, 1, QA_MAX_CHARS) \o <<ELLIPSIS>>
     ELSE relevant

\* mutant of QAContext: >= where the code has >
QAContext_CutAtLimit(cs) ==
  LET relevant == join(<<NL, NL>>, SubSeq(cs, 1, Min(3, Len(cs))))
  IN IF Len(relevant) >= QA_MAX_CHARS
     THEN SubSeq(relevant, 1, QA_MAX_CHARS) \o <<ELLIPSIS>>
     ELSE relevant

\* answer_question's multi-chunk context: first three chunks, cut at 4000 characters
QAContext(cs) ==
  LET relevant == join(<<NL, NL>>, SubSeq(cs, 1, Min(3, Len(cs))))
  IN IF Len(relevant) > QA_MAX_CHARS
     THEN SubSeq(relevant, 1, QA_MAX_CHARS) \o <<ELLIPSIS>>
     ELSE relevant

\* mutant of RetryAllowed: <= where the code has <
RetryAllowed_OffByOne(att) == att <= MAX_RETRIES

\* mutant of RetryAllowed: gives up one attempt early (attempt < MAX_RETRIES - 1)
RetryAllowed_GiveUpEarly(att) == att < MAX_RETRIES - 1

\* _call_gemini: `if attempt < MAX_RETRIES:` sleep and go on, else raise
RetryAllowed(att) == att < MAX_RETRIES

\* mutant of LastErr: the first exception kept (last_err = last_err or e)
LastErr_KeepFirst(prev, e) == IF prev = "None" THEN e ELSE prev

\* _call_gemini: `last_err = e`
LastErr(prev, e) == e

\* mutant of Backoff: the same pause after every failed attempt
Backoff_Constant(att) == RETRY_SLEEP

\* _call_gemini: time.sleep(RETRY_SLEEP * attempt)
Backoff(att) == RETRY_SLEEP * att

\* ------------------------------------------------------------------ inputs
\* the letter of word k of a generated document (code points of the CJK block)
Letter(k) == 19968 + k

\* A document of n words: word k is the letter Letter(k) (the first word
\* repeated `first` times), separated by a space or, every fifth word, by a
\* newline; with leading and trailing whitespace.
Document(n, first) ==
  IF n = 0 THEN <<>>
  ELSE <<SP>> \o [j \in 1..(first - 1) |-> Letter(1)]
         \o [j \in 1..(2 * n - 1) |->
               IF j % 2 = 1 THEN Letter((j + 1) \div 2)
               ELSE IF j % 10 = 0 THEN NL ELSE SP]
         \o <<NL>>

\* word counts at the chunk boundaries of chunk size m: k full chunks plus d words
BoundaryCounts(m, kmax) == {k * m + d : k \in 0..kmax, d \in {0, 1}}

\* documents given to generate_summary with selector len_sel (the last one is
\* whitespace only)
SummaryDocuments(len_sel) ==
  {Document(n, 1) : n \in BoundaryCounts(config(len_sel).max_words, MaxChunks)}
    \cup {<<SP, NL>>}

\* documents given to answer_question: up to MaxQAChunks full chunks and more,
\* one whose first two chunks join to 4001 characters, one of whitespace only
QADocuments ==
  {Document(n, 1) : n \in BoundaryCounts(QA_MAX_WORDS, MaxQAChunks)}
    \cup {Document(2 * QA_MAX_WORDS, 2), <<SP, NL>>}

\* the three recognized selectors and one that is not
Selectors == {"short", "medium", "long", "detailed"}

Questions == {<<113, 63>>}

\* what the service may answer: no text, "", " ", "a", " b\n"
ServiceResponses ==
  {NoneText, Text(<<>>), Text(<<SP>>), Text(<<97>>), Text(<<SP, 98, NL>>)}

\* exceptions the service call may raise
ServiceErrors == {"ServerError", "ClientError"}

\* ------------------------------------------------------------------- state
VARIABLES
  client,          \* the module-level client: "Client" or "None"
  op,              \* the function called: "generate_summary", "answer_question", "_call_gemini"
  text,            \* its text / document_text argument
  length,          \* generate_summary's length selector
  question,        \* answer_question's question
  pc,              \* "idle", "call" (inside _call_gemini), "sleep", "returned", "raised"
  site,            \* which call of _call_gemini: "single", "map", "reduce", "qa", "direct"
  chunks,          \* chunks = chunk_text(...)
  i,               \* the map loop's position, 1-based (0 outside the loop)
  chunk_summaries, \* the partial summaries collected so far
  contents,        \* _call_gemini's argument, as a one-element list (empty before any call)
  attempt,         \* _call_gemini's loop variable
  last_err,        \* _call_gemini's last_err ("None" at first)
  slept,           \* the time.sleep durations of the running call, in ms
  attempt_log,     \* what each attempt of the running call did: "ok" or the exception
  responses,       \* the responses _call_gemini returned so far, in order
  ncalls,          \* number of _call_gemini invocations
  nrequests,       \* number of requests that reached the external service
  result,          \* the returned value, as a one-element list (empty if none)
  err,             \* the exception raised to the caller ("None" if none)
  max_words,       \* chunk_text's max_words argument, when it is called on its own
  \* src/database.py
  documents,        \* the rows of table documents
  qa_interactions,  \* the rows of table qa_interactions
  documents_id_seq, \* the last id the documents table's SERIAL / AUTOINCREMENT gave out
  qa_id_seq,        \* the same for qa_interactions
  now,              \* the database clock behind CURRENT_TIMESTAMP, in ticks
  session,          \* per caller: where it is in save_document's retry loop
  last,             \* the store call that completed last, and how
  done,             \* number of store calls completed
  \* src/app.py, show_upload_analyze_page and the Logout button
  session_state,    \* st.session_state: the keys present, with their values
  run,              \* the script run in progress: its position and local variables
  issued,           \* the ids save_document returned to this browser session
  clicks,           \* number of button clicks so far
  \* src/database.py, create_user
  dialect,          \* engine.dialect.name
  users,            \* the rows of table users
  users_id_seq,     \* the last id the users table gave out
  creating          \* per caller: where it is in create_user

vars == <<client, op, text, length, question, pc, site, chunks, i, chunk_summaries,
          contents, attempt, last_err, slept, attempt_log, responses, ncalls,
          nrequests, result, err, max_words,
          documents, qa_interactions, documents_id_seq, qa_id_seq, now,
          session, last, done,
          session_state, run, issued, clicks,
          dialect, users, users_id_seq, creating>>

\* the two tables and their id sequences
tables == <<documents, qa_interactions>>
store == <<documents, qa_interactions, documents_id_seq, qa_id_seq, now,
           session, last, done>>

\* the state of one browser session of src/app.py
front == <<session_state, run, issued, clicks>>

\* the users table and the create_user calls in progress
accounts == <<dialect, users, users_id_seq, creating>>

\* the state outside the functions of gemini_service.py that call the service
rest == <<max_words, store, front, accounts>>

\* sessions calling the store (Streamlit runs one script thread per session)
Callers == {"s1", "s2"}

Idle == [pc |-> "idle", user_id |-> "", attempt |-> 0]
NoCall == [fn |-> "none", document_id |-> 0, user_id |-> "",
           returned |-> "None", raised |-> "None", attempts |-> 0, rows |-> <<>>,
           failed |-> "None"]

\* the state of the store after init_database on a new database
StoreInit ==
  /\ documents = {} /\ qa_interactions = {}
  /\ documents_id_seq = 0 /\ qa_id_seq = 0 /\ now = 0
  /\ session = [c \in Callers |-> Idle]
  /\ last = NoCall /\ done = 0

args == <<client, op, text, length, question>>
frame == <<site, contents, attempt, last_err, slept, attempt_log, ncalls>>

ServiceInit ==
  /\ client \in {"Client", "None"}
  /\ op = "none" /\ text = <<>> /\ length = "medium" /\ question = <<>>
  /\ pc = "idle" /\ site = "none"
  /\ chunks = <<>> /\ i = 0 /\ chunk_summaries = <<>>
  /\ contents = <<>> /\ attempt = 0 /\ last_err = "None"
  /\ slept = <<>> /\ attempt_log = <<>> /\ responses = <<>>
  /\ ncalls = 0 /\ nrequests = 0
  /\ result = <<>> /\ err = "None"
  /\ max_words = 0

\* a new browser session, before anything was uploaded
NoKeys == [k \in {} |-> <<>>]
NotRunning == [pc |-> "idle", extracted_text |-> "", summary |-> <<>>, doc_id |-> <<>>,
               question |-> "", answer |-> <<>>]

AppInit ==
  /\ session_state = NoKeys
  /\ run = NotRunning
  /\ issued = {} /\ clicks = 0

NotCreating == [pc |-> "idle", user_id |-> "", attempt |-> 0, rowcount |-> 0,
                errors |-> <<>>]

\* the users table after init_database on a new database
UsersInit ==
  /\ users = {} /\ users_id_seq = 0
  /\ creating = [c \in Callers |-> NotCreating]

\* _make_engine without DATABASE_URL: the local SQLite database
Init == ServiceInit /\ StoreInit /\ AppInit /\ UsersInit /\ dialect = "sqlite"

\* `raise e` out of the function called
Raise(e) == pc' = "raised" /\ err' = e /\ UNCHANGED result

\* `return v` from the function called
Return(v) == pc' = "returned" /\ result' = <<v>> /\ UNCHANGED err

\* entering _call_gemini(c) from call site s: last_err = None, attempt = 1
EnterCall(s, c) ==
  /\ pc' = "call" /\ site' = s /\ contents' = <<c>>
  /\ attempt' = 1 /\ last_err' = "None" /\ slept' = <<>> /\ attempt_log' = <<>>
  /\ ncalls' = ncalls + 1
  /\ UNCHANGED <<result, err>>

\* generate_summary's loop head at chunk k of cs, and what follows the loop:
\* the next map call, or the combine step (join, final prompt, reduce call)
MapOrCombine(cs, k, sums, len_sel) ==
  /\ i' = k
  /\ IF k <= Len(cs)
     THEN EnterCall("map", MapPrompt(cs[k]))
     ELSE IF HasFinalInstruction(len_sel)
          THEN EnterCall("reduce", FinalPrompt(len_sel, join(<<NL, NL>>, sums)))
          ELSE Raise("KeyError") /\ UNCHANGED frame

\* generate_summary(t, len_sel), up to its first Gateway call
GenerateSummary(t, len_sel) ==
  /\ pc = "idle"
  /\ op' = "generate_summary" /\ text' = t /\ length' = len_sel
  /\ UNCHANGED <<client, question, responses, nrequests>>
  /\ IF client = "None"
     THEN /\ Raise("NotConfigured")
          /\ UNCHANGED <<chunks, i, chunk_summaries>> /\ UNCHANGED frame
     ELSE LET cs == chunk_text(t, config(len_sel).max_words)
          IN /\ chunks' = cs
             /\ chunk_summaries' = <<>>
             /\ IF Len(cs) = 1
                THEN i' = 0 /\ EnterCall("single", SinglePrompt(len_sel, cs[1]))
                ELSE MapOrCombine(cs, 1, <<>>, len_sel)

\* answer_question(t, q), up to its Gateway call
AnswerQuestion(t, q) ==
  /\ pc = "idle"
  /\ op' = "answer_question" /\ text' = t /\ question' = q
  /\ UNCHANGED <<client, length, responses, nrequests, i, chunk_summaries>>
  /\ IF client = "None"
     THEN Raise("NotConfigured") /\ UNCHANGED chunks /\ UNCHANGED frame
     ELSE LET cs == chunk_text(t, QA_MAX_WORDS)
          IN /\ chunks' = cs
             /\ IF Len(cs) = 1
                THEN EnterCall("qa", QAPrompt(cs[1], q))
                ELSE EnterCall("qa", QAPrompt(QAContext(cs), q))

\* _call_gemini(c) called on its own
CallGemini(c) ==
  /\ pc = "idle"
  /\ op' = "_call_gemini"
  /\ UNCHANGED <<client, text, length, question, responses, nrequests, chunks, i,
                 chunk_summaries>>
  /\ EnterCall("direct", c)

\* what the caller does with the value _call_gemini returned at call site `site`
AfterCall(resp) ==
  CASE site = "single" -> Return(SummaryResult(resp)) /\ UNCHANGED <<i, chunk_summaries>>
    [] site = "map"    -> /\ chunk_summaries' = AppendSummary(chunk_summaries, resp)
                          /\ pc' = "sleep"
                          /\ UNCHANGED <<i, result, err>>
    [] site = "reduce" -> Return(SummaryResult(resp)) /\ UNCHANGED <<i, chunk_summaries>>
    [] site = "qa"     -> Return(AnswerResult(resp)) /\ UNCHANGED <<i, chunk_summaries>>
    [] site = "direct" -> Return(resp) /\ UNCHANGED <<i, chunk_summaries>>

\* mutant of AttemptReturns: a response without text is treated like a failed
\* attempt (sleep, next attempt) while attempts are left
AttemptReturns_RetryEmpty(resp) ==
  /\ pc = "call" /\ client = "Client"
  /\ nrequests' = nrequests + 1
  /\ attempt_log' = Append(attempt_log, "ok")
  /\ responses' = Append(responses, resp)
  /\ IF strip(TextOrEmpty(resp)) = <<>> /\ attempt < MAX_RETRIES
     THEN /\ slept' = Append(slept, Backoff(attempt))
          /\ attempt' = attempt + 1
          /\ UNCHANGED <<args, chunks, site, contents, last_err, ncalls, i,
                         chunk_summaries, pc, result, err>>
     ELSE /\ AfterCall(resp)
          /\ UNCHANGED <<args, chunks, site, contents, attempt, last_err, slept, ncalls>>

\* an attempt of _call_gemini on which the service answers resp
AttemptReturns(resp) ==
  /\ pc = "call" /\ client = "Client"
  /\ nrequests' = nrequests + 1
  /\ attempt_log' = Append(attempt_log, "ok")
  /\ responses' = Append(responses, resp)
  /\ AfterCall(resp)
  /\ UNCHANGED <<args, chunks, site, contents, attempt, last_err, slept, ncalls>>

\* the except branch of _call_gemini, for exception e of the running attempt
Except(e) ==
  /\ last_err' = LastErr(last_err, e)
  /\ attempt_log' = Append(attempt_log, e)
  /\ UNCHANGED <<args, chunks, site, contents, ncalls, i, chunk_summaries>>
  /\ IF RetryAllowed(attempt)
     THEN /\ slept' = Append(slept, Backoff(attempt))
          /\ IF attempt < MAX_RETRIES
             THEN attempt' = attempt + 1 /\ UNCHANGED <<pc, result, err, responses>>
             ELSE \* the for loop is exhausted: _call_gemini returns None
                  /\ UNCHANGED <<attempt, responses>>
                  /\ IF site = "direct" THEN Return(NoneText) ELSE Raise("AttributeError")
     ELSE /\ Raise(last_err')
          /\ UNCHANGED <<attempt, slept, responses>>

\* an attempt of _call_gemini on which the service raises e
AttemptFails(e) ==
  /\ pc = "call" /\ client = "Client"
  /\ nrequests' = nrequests + 1
  /\ Except(e)

\* an attempt of _call_gemini with client = None: client.models raises
\* AttributeError inside the try, before any request is made
AttemptWithoutClient ==
  /\ pc = "call" /\ client = "None"
  /\ UNCHANGED nrequests
  /\ Except("AttributeError")

\* generate_summary after time.sleep(0.4): the next chunk, or the combine step
NextChunk ==
  /\ pc = "sleep"
  /\ MapOrCombine(chunks, i + 1, chunk_summaries, length)
  /\ UNCHANGED <<args, chunks, chunk_summaries, responses, nrequests>>

Next ==
  \/ /\ pc = "idle"
     /\ \E l \in Selectors : \E t \in SummaryDocuments(l) : GenerateSummary(t, l)
     /\ UNCHANGED rest
  \/ /\ pc = "idle"
     /\ \E t \in QADocuments, q \in Questions : AnswerQuestion(t, q)
     /\ UNCHANGED rest
  \/ (\E c \in {Prompt("ping", <<>>)} : CallGemini(c)) /\ UNCHANGED rest
  \/ (\E r \in ServiceResponses : AttemptReturns(r)) /\ UNCHANGED rest
  \/ (\E e \in ServiceErrors : AttemptFails(e)) /\ UNCHANGED rest
  \/ AttemptWithoutClient /\ UNCHANGED rest
  \/ NextChunk /\ UNCHANGED rest

Spec == Init /\ [][Next]_vars

\* ------------------------------------------------- chunk_text on its own
\* chunk_text(t, m) called directly: range(0, len(words), 0) raises
\* ValueError, any other max_words returns the list comprehension's value
ChunkText(t, m) ==
  /\ pc = "idle"
  /\ op' = "chunk_text" /\ text' = t /\ max_words' = m
  /\ IF m = 0 THEN Raise("ValueError") ELSE Return(chunk_text(t, m))
  /\ UNCHANGED <<client, length, question, chunks, i, chunk_summaries, responses,
                 nrequests>>
  /\ UNCHANGED frame
  /\ UNCHANGED <<store, front, accounts>>

\* every string over 'a', 'b', space and newline of at most MaxTextLen characters
Texts == UNION {[1..n -> {97, 98, SP, NL}] : n \in 0..MaxTextLen}

\* max_words arguments: negative, zero and positive
WordLimits == (0 - MaxWords)..MaxWords

ChunkNext == pc = "idle" /\ \E t \in Texts, m \in WordLimits : ChunkText(t, m)

ChunkInit == Init /\ client = "Client"

SpecChunk == ChunkInit /\ [][ChunkNext]_vars

\* ------------------------------------------------------- the Document Store
\* Every function of src/database.py opens its own connection and runs one
\* transaction on it; a transaction takes effect as one step (at its commit)
\* or, when a statement or the commit raises, not at all.  Calls of different
\* sessions interleave between transactions, also between the attempts of
\* save_document.
\* save_document: max_retries = 3
max_retries == 3

Users == {"u1", "u2"}

\* the exception a statement, the commit or engine.connect() may raise
StorageErrors == {"OperationalError"}

\* a row of documents; created_at is CURRENT_TIMESTAMP at the INSERT
DocumentRow(id, user_id, filename, content, summary, file_size, created_at) ==
  [id |-> id, user_id |-> user_id, filename |-> filename, content |-> content,
   summary |-> summary, file_size |-> file_size, created_at |-> created_at]

\* a row of qa_interactions: document_id is a plain INTEGER NOT NULL column
QARow(id, document_id, q, a) ==
  [id |-> id, document_id |-> document_id, question |-> q, answer |-> a]

\* mutant of NextId: INTEGER PRIMARY KEY without AUTOINCREMENT, the largest id
\* in the table plus one
NextId_MaxPlusOne(seq, rows) ==
  IF rows = {} THEN 1
  ELSE (CHOOSE r \in rows : \A r2 \in rows : r.id >= r2.id).id + 1

\* the id SERIAL / INTEGER PRIMARY KEY AUTOINCREMENT gives the next row: one
\* more than the largest id ever given out, whatever was deleted since
NextId(seq, rows) == seq + 1

\* CURRENT_TIMESTAMP of a later statement: the clock has ticked or has not
\* (SQLite's CURRENT_TIMESTAMP counts whole seconds)
Later(t) == {t, t + 1}

\* mutant of Owned: the ownership condition left out of the SELECT
Owned_AnyUser(docs, doc_id, user_id) == {r \in docs : r.id = doc_id}

\* SELECT id FROM documents WHERE id = :doc_id AND user_id = :user_id
Owned(docs, doc_id, user_id) == {r \in docs : r.id = doc_id /\ r.user_id = user_id}

\* mutant of DeleteQA: the Q&A rows are left in place
DeleteQA_Keep(qa, doc_id) == qa

\* DELETE FROM qa_interactions WHERE document_id = :doc_id
DeleteQA(qa, doc_id) == {r \in qa : r.document_id # doc_id}

\* DELETE FROM documents WHERE id = :doc_id
DeleteDoc(docs, doc_id) == {r \in docs : r.id # doc_id}

\* mutant of OfUser: the WHERE clause left out
OfUser_All(docs, user_id) == docs

\* ... FROM documents WHERE user_id = :user_id
OfUser(docs, user_id) == {r \in docs : r.user_id = user_id}

\* SELECT id, filename, content, summary, file_size, created_at: the dict
\* get_user_documents builds from a row
DocumentDict(r) ==
  [id |-> r.id, filename |-> r.filename, content |-> r.content,
   summary |-> r.summary, file_size |-> r.file_size, created_at |-> r.created_at]

\* mutant of OrderByCreatedAtDesc: ORDER BY created_at ASC
OrderByCreatedAtDesc_Asc(rows) ==
  {f \in [1..Cardinality(rows) -> rows] :
     /\ \A j, k \in DOMAIN f : j # k => f[j] # f[k]
     /\ \A j, k \in DOMAIN f : j < k => f[j].created_at <= f[k].created_at}

\* ORDER BY created_at DESC: every order of the rows in which created_at does
\* not increase (rows of equal created_at come in any order)
OrderByCreatedAtDesc(rows) ==
  {f \in [1..Cardinality(rows) -> rows] :
     /\ \A j, k \in DOMAIN f : j # k => f[j] # f[k]
     /\ \A j, k \in DOMAIN f : j < k => f[j].created_at >= f[k].created_at}

InFlight == Cardinality({c \in Callers : session[c].pc # "idle"})

\* caller c may start a call
Free(c) == session[c].pc = "idle" /\ done + InFlight < MaxStoreCalls

\* a call completes after `attempts` attempts, returning `rows` if it returns
\* a list; `failed` is the exception of its last attempt ("None" if it got through)
CompletedWith(fn, document_id, user_id, returned, raised, attempts, rows, failed) ==
  /\ last' = [fn |-> fn, document_id |-> document_id, user_id |-> user_id,
              returned |-> returned, raised |-> raised, attempts |-> attempts,
              rows |-> rows, failed |-> failed]
  /\ done' = done + 1

\* a call without a retry loop completes: one attempt; what it raises is the
\* exception of that attempt
Completed(fn, document_id, user_id, returned, raised) ==
  CompletedWith(fn, document_id, user_id, returned, raised, 1, <<>>, raised)

\* save_document(user_id, filename, content, summary, file_size) is called: attempt = 0
SaveDocument(c, user_id) ==
  /\ Free(c)
  /\ session' = [session EXCEPT ![c] = [pc |-> "save_document", user_id |-> user_id,
                                        attempt |-> 0]]
  /\ UNCHANGED <<tables, documents_id_seq, qa_id_seq, now, last, done>>

\* mutant of SaveDocumentFails: the INSERT of the failed attempt stays in the table
SaveDocumentFails_KeepsRow(c, e) ==
  /\ session[c].pc = "save_document"
  /\ documents_id_seq' = NextId(documents_id_seq, documents)
  /\ documents' = documents \cup
       {DocumentRow(documents_id_seq', session[c].user_id, "a.pdf", "text", "summary", 4,
                    now)}
  /\ IF session[c].attempt < max_retries - 1
     THEN /\ session' = [session EXCEPT ![c].attempt = @ + 1]
          /\ UNCHANGED <<last, done>>
     ELSE /\ session' = [session EXCEPT ![c] = Idle]
          /\ CompletedWith("save_document", 0, session[c].user_id, "None", e,
                           session[c].attempt + 1, <<>>, e)
  /\ UNCHANGED <<qa_interactions, qa_id_seq, now>>

\* an attempt of save_document that gets through: INSERT, the new id, commit
SaveDocumentCommits(c) ==
  /\ session[c].pc = "save_document"
  /\ now' \in Later(now)
  /\ LET doc_id == NextId(documents_id_seq, documents)
     IN /\ documents' = documents \cup
             {DocumentRow(doc_id, session[c].user_id, "a.pdf", "text", "summary",
                          4, now')}
        /\ documents_id_seq' = doc_id
        /\ CompletedWith("save_document", doc_id, session[c].user_id, "id", "None",
                         session[c].attempt + 1, <<>>, "None")
  /\ session' = [session EXCEPT ![c] = Idle]
  /\ UNCHANGED <<qa_interactions, qa_id_seq>>

\* an attempt of save_document that raises e: the connection is closed without
\* a commit; sleep and go on while attempt < max_retries - 1, else re-raise
SaveDocumentFails(c, e) ==
  /\ session[c].pc = "save_document"
  /\ IF session[c].attempt < max_retries - 1
     THEN /\ session' = [session EXCEPT ![c].attempt = @ + 1]
          /\ UNCHANGED <<last, done>>
     ELSE /\ session' = [session EXCEPT ![c] = Idle]
          /\ CompletedWith("save_document", 0, session[c].user_id, "None", e,
                           session[c].attempt + 1, <<>>, e)
  /\ UNCHANGED <<tables, documents_id_seq, qa_id_seq, now>>

\* get_user_documents(user_id): one SELECT, the rows as a list of dicts
GetUserDocuments(c, user_id) ==
  /\ Free(c)
  /\ \E ordered \in OrderByCreatedAtDesc(OfUser(documents, user_id)) :
       CompletedWith("get_user_documents", 0, user_id, "list", "None", 1,
                     [k \in DOMAIN ordered |-> DocumentDict(ordered[k])], "None")
  /\ UNCHANGED <<tables, documents_id_seq, qa_id_seq, now, session>>

\* get_user_documents when the SELECT raises: st.error, return []
GetUserDocumentsFails(c, user_id, e) ==
  /\ Free(c)
  /\ CompletedWith("get_user_documents", 0, user_id, "list", "None", 1, <<>>, e)
  /\ UNCHANGED <<tables, documents_id_seq, qa_id_seq, now, session>>

\* save_qa_interaction(document_id, q, a): INSERT and commit
SaveQAInteraction(c, document_id) ==
  /\ Free(c)
  /\ qa_id_seq' = NextId(qa_id_seq, qa_interactions)
  /\ qa_interactions' = qa_interactions \cup {QARow(qa_id_seq', document_id, "q", "a")}
  /\ Completed("save_qa_interaction", document_id, "", "None", "None")
  /\ UNCHANGED <<documents, documents_id_seq, now, session>>

\* save_qa_interaction when the INSERT or the commit raises e: st.error, raise
SaveQAInteractionFails(c, document_id, e) ==
  /\ Free(c)
  /\ Completed("save_qa_interaction", document_id, "", "None", e)
  /\ UNCHANGED <<tables, documents_id_seq, qa_id_seq, now, session>>

\* get_document_qa_history(document_id): one SELECT; the question / answer
\* pairs of the document's rows (their order by created_at is not modelled:
\* listed by id, newest first)
QAHistory(qa, document_id) ==
  LET rows == {r \in qa : r.document_id = document_id}
      ordered == CHOOSE f \in [1..Cardinality(rows) -> rows] :
                   \A j, k \in DOMAIN f : j < k => f[j].id > f[k].id
  IN [k \in DOMAIN ordered |->
        [question |-> ordered[k].question, answer |-> ordered[k].answer]]

GetDocumentQAHistory(c, document_id) ==
  /\ Free(c)
  /\ CompletedWith("get_document_qa_history", document_id, "", "list", "None", 1,
                   QAHistory(qa_interactions, document_id), "None")
  /\ UNCHANGED <<tables, documents_id_seq, qa_id_seq, now, session>>

\* get_document_qa_history when the SELECT raises: st.error, return []
GetDocumentQAHistoryFails(c, document_id, e) ==
  /\ Free(c)
  /\ CompletedWith("get_document_qa_history", document_id, "", "list", "None", 1, <<>>,
                   e)
  /\ UNCHANGED <<tables, documents_id_seq, qa_id_seq, now, session>>

\* delete_document(document_id, user_id) in one transaction
DeleteDocument(c, document_id, user_id) ==
  /\ Free(c)
  /\ IF Owned(documents, document_id, user_id) = {}
     THEN /\ Completed("delete_document", document_id, user_id, "False", "None")
          /\ UNCHANGED tables
     ELSE /\ qa_interactions' = DeleteQA(qa_interactions, document_id)
          /\ documents' = DeleteDoc(documents, document_id)
          /\ Completed("delete_document", document_id, user_id, "True", "None")
  /\ UNCHANGED <<documents_id_seq, qa_id_seq, now, session>>

\* the statements of delete_document, in order
DeleteSteps == <<"select", "delete_qa", "delete_documents", "commit">>

\* mutant of DeleteDocumentFails: every statement is committed as it runs
DeleteDocumentFails_Autocommit(c, document_id, user_id, k, e) ==
  /\ Free(c)
  /\ k = 1 \/ Owned(documents, document_id, user_id) # {}
  /\ qa_interactions' =
       IF k > 2 THEN DeleteQA(qa_interactions, document_id) ELSE qa_interactions
  /\ documents' = IF k > 3 THEN DeleteDoc(documents, document_id) ELSE documents
  /\ CompletedWith("delete_document", document_id, user_id, "False", "None", 1, <<>>, e)
  /\ UNCHANGED <<documents_id_seq, qa_id_seq, now, session>>

\* delete_document when statement k of DeleteSteps raises e (a statement after
\* the SELECT is reached only for the owner's document): the connection is
\* closed without a commit, st.error, return False
DeleteDocumentFails(c, document_id, user_id, k, e) ==
  /\ Free(c)
  /\ k = 1 \/ Owned(documents, document_id, user_id) # {}
  /\ CompletedWith("delete_document", document_id, user_id, "False", "None", 1, <<>>, e)
  /\ UNCHANGED <<tables, documents_id_seq, qa_id_seq, now, session>>

\* document ids a caller may pass: every id given out so far and the next one
DocumentIds == 1..(documents_id_seq + 1)

service == <<client, op, text, length, question, pc, site, chunks, i, chunk_summaries,
             contents, attempt, last_err, slept, attempt_log, responses, ncalls,
             nrequests, result, err, max_words>>

StoreNext ==
  \/ (\E c \in Callers, u \in Users : SaveDocument(c, u)) /\ UNCHANGED <<service, front, accounts>>
  \/ (\E c \in Callers : SaveDocumentCommits(c)) /\ UNCHANGED <<service, front, accounts>>
  \/ (\E c \in Callers, e \in StorageErrors : SaveDocumentFails(c, e)) /\ UNCHANGED <<service, front, accounts>>
  \/ (\E c \in Callers, d \in DocumentIds : SaveQAInteraction(c, d)) /\ UNCHANGED <<service, front, accounts>>
  \/ (\E c \in Callers, d \in DocumentIds, e \in StorageErrors :
        SaveQAInteractionFails(c, d, e)) /\ UNCHANGED <<service, front, accounts>>
  \/ (\E c \in Callers, d \in DocumentIds, u \in Users : DeleteDocument(c, d, u))
       /\ UNCHANGED <<service, front, accounts>>
  \/ (\E c \in Callers, d \in DocumentIds, u \in Users, k \in DOMAIN DeleteSteps,
          e \in StorageErrors : DeleteDocumentFails(c, d, u, k, e)) /\ UNCHANGED <<service, front, accounts>>
  \/ (\E c \in Callers, u \in Users : GetUserDocuments(c, u)) /\ UNCHANGED <<service, front, accounts>>
  \/ (\E c \in Callers, u \in Users, e \in StorageErrors : GetUserDocumentsFails(c, u, e))
       /\ UNCHANGED <<service, front, accounts>>
  \/ (\E c \in Callers, d \in DocumentIds : GetDocumentQAHistory(c, d))
       /\ UNCHANGED <<service, front, accounts>>
  \/ (\E c \in Callers, d \in DocumentIds, e \in StorageErrors :
        GetDocumentQAHistoryFails(c, d, e)) /\ UNCHANGED <<service, front, accounts>>

\* the store on its own: nothing of gemini_service.py runs
StoreOnly == Init /\ client = "Client"

SpecStore == StoreOnly /\ [][StoreNext]_vars

\* ------------------------------------------- the upload and analyze page
\* One browser session of show_upload_analyze_page.  A click starts a script
\* run; the run goes through the calls of the handler one step at a time, and
\* each call either returns or raises.  save_document and save_qa_interaction
\* are the calls of src/database.py as a whole: a row and an id, or an
\* exception and no row.  The 'timestamp' of a qa_history entry is left out.
AppUser == "u1"

\* extracted_text is not blank when the buttons are shown (`return` otherwise)
ExtractedTexts == {"text", "more"}
Summaries == {"summary", ""}
AskedQuestions == {"q", "why"}
GivenAnswers == {"a", ""}
AppErrors == {"Exception"}

\* st.session_state[k] = v
SetKey(ss, k, v) == [x \in DOMAIN ss \cup {k} |-> IF x = k THEN v ELSE ss[x]]

\* if 'qa_history' not in st.session_state: st.session_state['qa_history'] = []
InitHistory(ss) == IF "qa_history" \in DOMAIN ss THEN ss ELSE SetKey(ss, "qa_history", <<>>)

HistoryEntry(q, a) == [question |-> q, answer |-> a]

\* the run ends: `return`, the end of the script, or st.rerun()
EndRun == run' = [run EXCEPT !.pc = "idle"]

backstage == <<service, accounts, session, last, done>>
store_rows == <<documents, qa_interactions, documents_id_seq, qa_id_seq, now>>

\* "Generate Summary" clicked with extracted_text = t
GenerateSummaryClicked(t) ==
  /\ run.pc = "idle" /\ clicks < MaxClicks
  /\ clicks' = clicks + 1
  /\ run' = [NotRunning EXCEPT !.pc = "check_gemini_service", !.extracted_text = t]
  /\ UNCHANGED <<session_state, issued, store_rows>>

\* if not check_gemini_service(): st.error(...); return
CheckGeminiService(ok) ==
  /\ run.pc = "check_gemini_service"
  /\ IF ok THEN run' = [run EXCEPT !.pc = "generate_summary"] ELSE EndRun
  /\ UNCHANGED <<session_state, issued, clicks, store_rows>>

\* summary = generate_summary(extracted_text, summary_length)
GenerateSummaryReturns(s) ==
  /\ run.pc = "generate_summary"
  /\ run' = [run EXCEPT !.pc = "save_document", !.summary = <<s>>]
  /\ UNCHANGED <<session_state, issued, clicks, store_rows>>

\* generate_summary raises: except Exception: st.error(...); return
GenerateSummaryRaises(e) ==
  /\ run.pc = "generate_summary"
  /\ EndRun
  /\ UNCHANGED <<session_state, issued, clicks, store_rows>>

\* doc_id = save_document(user_id, filename, extracted_text, summary, size)
UploadSaveDocument ==
  /\ run.pc = "save_document"
  /\ documents_id_seq' = NextId(documents_id_seq, documents)
  /\ now' \in Later(now)
  /\ documents' = documents \cup
       {DocumentRow(documents_id_seq', AppUser, "a.pdf", run.extracted_text,
                    run.summary[1], 4, now')}
  /\ issued' = issued \cup {documents_id_seq'}
  /\ run' = [run EXCEPT !.pc = "set_keys", !.doc_id = <<documents_id_seq'>>]
  /\ UNCHANGED <<session_state, clicks, qa_interactions, qa_id_seq>>

\* mutant of UploadSaveDocumentRaises: the content is put into the session
\* before the document is saved
UploadSaveDocumentRaises_ContentSet(e) ==
  /\ run.pc = "save_document"
  /\ EndRun
  /\ session_state' = SetKey(session_state, "current_doc_content", run.extracted_text)
  /\ UNCHANGED <<issued, clicks, store_rows>>

\* save_document raises after its attempts: except Exception: st.error; return
UploadSaveDocumentRaises(e) ==
  /\ run.pc = "save_document"
  /\ EndRun
  /\ UNCHANGED <<session_state, issued, clicks, store_rows>>

\* st.session_state['current_doc_id'] = doc_id, ['current_doc_content'] =
\* extracted_text, ['current_summary'] = summary; the run goes on to the Q&A
\* section, which creates qa_history when it is not there
SetCurrentDocument ==
  /\ run.pc = "set_keys"
  /\ session_state' =
       InitHistory(SetKey(SetKey(SetKey(session_state,
         "current_doc_id", run.doc_id[1]),
         "current_doc_content", run.extracted_text),
         "current_summary", run.summary[1]))
  /\ EndRun
  /\ UNCHANGED <<issued, clicks, store_rows>>

\* "Get Answer" clicked with a question that is not blank, in a session that
\* has current_doc_content
GetAnswerClicked(q) ==
  /\ run.pc = "idle" /\ clicks < MaxClicks
  /\ "current_doc_content" \in DOMAIN session_state
  /\ clicks' = clicks + 1
  /\ session_state' = InitHistory(session_state)
  /\ run' = [NotRunning EXCEPT !.pc = "answer_question", !.question = q]
  /\ UNCHANGED <<issued, store_rows>>

\* answer = answer_question(st.session_state['current_doc_content'], question)
AnswerQuestionReturns(a) ==
  /\ run.pc = "answer_question"
  /\ run' = [run EXCEPT !.pc = "save_qa_interaction", !.answer = <<a>>]
  /\ UNCHANGED <<session_state, issued, clicks, store_rows>>

\* answer_question raises: except Exception: st.error(...)
AnswerQuestionRaises(e) ==
  /\ run.pc = "answer_question"
  /\ EndRun
  /\ UNCHANGED <<session_state, issued, clicks, store_rows>>

\* save_qa_interaction(st.session_state['current_doc_id'], question, answer)
QASaveInteraction ==
  /\ run.pc = "save_qa_interaction"
  /\ qa_id_seq' = NextId(qa_id_seq, qa_interactions)
  /\ qa_interactions' = qa_interactions \cup
       {QARow(qa_id_seq', session_state["current_doc_id"], run.question, run.answer[1])}
  /\ run' = [run EXCEPT !.pc = "append"]
  /\ UNCHANGED <<session_state, issued, clicks, documents, documents_id_seq, now>>

\* mutant of QASaveInteractionRaises: the exchange is put into qa_history
\* although the insert failed
QASaveInteractionRaises_Appends(e) ==
  /\ run.pc = "save_qa_interaction"
  /\ EndRun
  /\ session_state' = [session_state EXCEPT
       !["qa_history"] = Append(@, HistoryEntry(run.question, run.answer[1]))]
  /\ UNCHANGED <<issued, clicks, store_rows>>

\* save_qa_interaction raises: except Exception: st.error(...)
QASaveInteractionRaises(e) ==
  /\ run.pc = "save_qa_interaction"
  /\ EndRun
  /\ UNCHANGED <<session_state, issued, clicks, store_rows>>

\* st.session_state['qa_history'].append({...}); st.rerun()
AppendQAHistory ==
  /\ run.pc = "append"
  /\ session_state' = [session_state EXCEPT
       !["qa_history"] = Append(@, HistoryEntry(run.question, run.answer[1]))]
  /\ EndRun
  /\ UNCHANGED <<issued, clicks, store_rows>>

\* "Logout" clicked: every key of st.session_state is deleted; st.rerun()
Logout ==
  /\ run.pc = "idle" /\ clicks < MaxClicks
  /\ clicks' = clicks + 1
  /\ session_state' = NoKeys
  /\ run' = NotRunning
  /\ UNCHANGED <<issued, store_rows>>

AppNext ==
  \/ (\E t \in ExtractedTexts : GenerateSummaryClicked(t)) /\ UNCHANGED backstage
  \/ (\E ok \in BOOLEAN : CheckGeminiService(ok)) /\ UNCHANGED backstage
  \/ (\E s \in Summaries : GenerateSummaryReturns(s)) /\ UNCHANGED backstage
  \/ (\E e \in AppErrors : GenerateSummaryRaises(e)) /\ UNCHANGED backstage
  \/ UploadSaveDocument /\ UNCHANGED backstage
  \/ (\E e \in AppErrors : UploadSaveDocumentRaises(e)) /\ UNCHANGED backstage
  \/ SetCurrentDocument /\ UNCHANGED backstage
  \/ (\E q \in AskedQuestions : GetAnswerClicked(q)) /\ UNCHANGED backstage
  \/ (\E a \in GivenAnswers : AnswerQuestionReturns(a)) /\ UNCHANGED backstage
  \/ (\E e \in AppErrors : AnswerQuestionRaises(e)) /\ UNCHANGED backstage
  \/ QASaveInteraction /\ UNCHANGED backstage
  \/ (\E e \in AppErrors : QASaveInteractionRaises(e)) /\ UNCHANGED backstage
  \/ AppendQAHistory /\ UNCHANGED backstage
  \/ Logout /\ UNCHANGED backstage

\* the page on its own, with the service configured
AppOnly == Init /\ client = "Client"

SpecApp == AppOnly /\ [][AppNext]_vars

\* ------------------------------------------------------------ create_user
\* create_user of src/database.py for callers that run at the same time.  On
\* PostgreSQL an attempt is one INSERT ... ON CONFLICT statement and its
\* commit, one step.  On any other dialect an attempt is an UPDATE and, when
\* it matched no row, an INSERT: another caller's transaction may commit
\* between the two statements.
Dialects == {"postgresql", "sqlite"}

\* a row of users; created_at and last_login are CURRENT_TIMESTAMP
UserRow(id, user_id, created_at, last_login) ==
  [id |-> id, user_id |-> user_id, created_at |-> created_at, last_login |-> last_login]

\* the rows WHERE user_id = :user_id
UserRows(rows, user_id) == {r \in rows : r.user_id = user_id}

\* mutant of UniqueViolation: the column is declared without UNIQUE
UniqueViolation_NotEnforced(rows, user_id) == FALSE

\* user_id VARCHAR(255) UNIQUE NOT NULL: an INSERT of a user_id that a
\* committed row has raises IntegrityError
UniqueViolation(rows, user_id) == UserRows(rows, user_id) # {}

\* UPDATE users SET last_login = CURRENT_TIMESTAMP WHERE user_id = :user_id
UpdateLastLogin(rows, user_id, t) ==
  {IF r.user_id = user_id THEN [r EXCEPT !.last_login = t] ELSE r : r \in rows}

Creating == Cardinality({c \in Callers : creating[c].pc # "idle"})

others == <<service, front, documents, qa_interactions, documents_id_seq, qa_id_seq,
            session, dialect>>

\* create_user(user_id) is called: attempt = 0
CreateUser(c, user_id) ==
  /\ creating[c].pc = "idle" /\ done + Creating < MaxStoreCalls
  /\ creating' = [creating EXCEPT ![c] = [NotCreating EXCEPT !.pc = "attempt",
                                                             !.user_id = user_id]]
  /\ UNCHANGED <<users, users_id_seq, now, last, done>>

\* create_user returns after its commit
CreateUserReturns(c) ==
  /\ creating' = [creating EXCEPT ![c].pc = "idle"]
  /\ CompletedWith("create_user", 0, creating[c].user_id, "None", "None",
                   creating[c].attempt + 1, <<>>, "None")

\* the INSERT of a new row for the caller's user_id, and the commit
InsertUser(c) ==
  /\ users_id_seq' = NextId(users_id_seq, users)
  /\ now' \in Later(now)
  /\ users' = users \cup {UserRow(users_id_seq', creating[c].user_id, now', now')}

\* the except branch for exception e: time.sleep(1) and the next attempt
\* while attempt < max_retries - 1, else st.error and raise
CreateUserExcept(c, e) ==
  IF creating[c].attempt < max_retries - 1
  THEN /\ creating' = [creating EXCEPT ![c].pc = "attempt",
                                       ![c].attempt = @ + 1,
                                       ![c].rowcount = 0,
                                       ![c].errors = Append(@, e)]
       /\ UNCHANGED <<last, done>>
  ELSE /\ creating' = [creating EXCEPT ![c].pc = "idle", ![c].errors = Append(@, e)]
       /\ CompletedWith("create_user", 0, creating[c].user_id, "None", e,
                        creating[c].attempt + 1, <<>>, e)

\* an attempt on PostgreSQL: INSERT ... ON CONFLICT (user_id) DO UPDATE SET
\* last_login, commit, return
CreateUserUpsert(c) ==
  /\ creating[c].pc = "attempt" /\ dialect = "postgresql"
  /\ IF UniqueViolation(users, creating[c].user_id)
     THEN /\ now' \in Later(now)
          /\ users' = UpdateLastLogin(users, creating[c].user_id, now')
          /\ UNCHANGED users_id_seq
     ELSE InsertUser(c)
  /\ CreateUserReturns(c)

\* an attempt on another dialect, first statement: the UPDATE; when it
\* matched a row (rowcount > 0) the attempt commits and returns, else it goes
\* on to the INSERT
CreateUserUpdate(c) ==
  /\ creating[c].pc = "attempt" /\ dialect # "postgresql"
  /\ LET rowcount == Cardinality(UserRows(users, creating[c].user_id))
     IN IF rowcount = 0
        THEN /\ creating' = [creating EXCEPT ![c].pc = "insert", ![c].rowcount = 0]
             /\ UNCHANGED <<users, users_id_seq, now, last, done>>
        ELSE /\ now' \in Later(now)
             /\ users' = UpdateLastLogin(users, creating[c].user_id, now')
             /\ UNCHANGED users_id_seq
             /\ CreateUserReturns(c)

\* the INSERT after an UPDATE that matched no row: the row and the commit, or
\* IntegrityError when a row of this user_id was committed in between
CreateUserInsert(c) ==
  /\ creating[c].pc = "insert"
  /\ IF UniqueViolation(users, creating[c].user_id)
     THEN /\ CreateUserExcept(c, "IntegrityError")
          /\ UNCHANGED <<users, users_id_seq, now>>
     ELSE /\ InsertUser(c)
          /\ CreateUserReturns(c)

\* engine.connect(), a statement or the commit of the running attempt raises e
CreateUserFails(c, e) ==
  /\ creating[c].pc \in {"attempt", "insert"}
  /\ CreateUserExcept(c, e)
  /\ UNCHANGED <<users, users_id_seq, now>>

UsersNext ==
  \/ (\E c \in Callers, u \in Users : CreateUser(c, u)) /\ UNCHANGED others
  \/ (\E c \in Callers : CreateUserUpsert(c)) /\ UNCHANGED others
  \/ (\E c \in Callers : CreateUserUpdate(c)) /\ UNCHANGED others
  \/ (\E c \in Callers : CreateUserInsert(c)) /\ UNCHANGED others
  \/ (\E c \in Callers, e \in StorageErrors : CreateUserFails(c, e)) /\ UNCHANGED others

\* create_user on its own, on either database
UsersOnly ==
  /\ ServiceInit /\ client = "Client"
  /\ StoreInit /\ AppInit /\ UsersInit
  /\ dialect \in Dialects

SpecUsers == UsersOnly /\ [][UsersNext]_vars

\* ================================================================== claims
Recognized == DOMAIN chunk_configs

\* generate_summary / answer_question got past the `if not client` check
Summarizing == op = "generate_summary" /\ client = "Client"
Answering == op = "answer_question" /\ client = "Client"

NChunks == Len(chunks)
MultiChunk == Summarizing /\ NChunks # 1
Finished == pc \in {"returned", "raised"}

\* the running (or last) _call_gemini call has returned a response
CallReturned == attempt_log # <<>> /\ attempt_log[Len(attempt_log)] = "ok"

\* all MAX_RETRIES attempts of the running (or last) call raised
Exhausted == Len(attempt_log) = MAX_RETRIES /\ attempt_log[MAX_RETRIES] # "ok"

LastResponse == responses[Len(responses)]

\* the responses of the map calls made so far
MapResponses == SubSeq(responses, 1, Min(Len(responses), NChunks))

\* the stripped texts of the responses that have a non-empty text, in order
RECURSIVE StrippedNonEmpty(_)
StrippedNonEmpty(rs) ==
  IF rs = <<>> THEN <<>>
  ELSE (IF Head(rs).is_none \/ Head(rs).text = <<>> THEN <<>> ELSE <<strip(Head(rs).text)>>)
         \o StrippedNonEmpty(Tail(rs))

\* C1 (as claimed): generate_summary with an unrecognized length selector does
\* what it does for "medium": medium's chunking, medium's prompts at every
\* call, the trimmed response returned, and no failure caused by the selector.
C1_UnrecognizedIsMedium ==
  (Summarizing /\ length \notin Recognized /\ NChunks >= 1) =>
    /\ err # "KeyError"
    /\ NChunks = 1 => contents = <<SinglePrompt("medium", chunks[1])>>
    /\ (site = "map" /\ pc = "call") => contents = <<MapPrompt(chunks[i])>>
    /\ site = "reduce" =>
         contents = <<FinalPrompt("medium", join(<<NL, NL>>, chunk_summaries))>>
    /\ pc = "returned" => result = <<strip(TextOrEmpty(LastResponse))>>

\* C2 (as claimed): with a configured client and a Gateway that answers every
\* call, generate_summary on a text of N >= 1 chunks ends having issued 1 call
\* (N = 1) or N + 1 calls (N > 1) and returns the trimmed last response.
C2_CallCount ==
  (Summarizing /\ Finished /\ NChunks >= 1 /\ err \notin ServiceErrors) =>
    /\ pc = "returned"
    /\ ncalls = IF NChunks = 1 THEN 1 ELSE NChunks + 1
    /\ site = IF NChunks = 1 THEN "single" ELSE "reduce"
    /\ result = <<strip(TextOrEmpty(LastResponse))>>

\* C2 for the three recognized selectors only (not a claim's formula: it shows
\* that the unrecognized selector is the only way C2_CallCount fails)
C2_CallCountRecognized == length \in Recognized => C2_CallCount

\* C3: in the multi-chunk path the k-th Gateway call is the map call of chunk k
\* (k <= N), it is issued when the k-1 calls before it have returned, the reduce
\* call is issued when all N map calls have returned, and the reduce prompt
\* holds the partial summaries in the order of the chunks they came from.
C3_MapOrder ==
  MultiChunk =>
    /\ (site = "map" /\ pc = "call") =>
         /\ i \in 1..NChunks /\ ncalls = i /\ Len(responses) = i - 1
         /\ contents = <<MapPrompt(chunks[i])>>
    /\ pc = "sleep" => (i \in 1..NChunks /\ ncalls = i /\ Len(responses) = i)
    /\ chunk_summaries = StrippedNonEmpty(MapResponses)
    /\ site = "reduce" =>
         /\ ncalls = NChunks + 1 /\ Len(responses) >= NChunks
         /\ contents[1].body = join(<<NL, NL>>, StrippedNonEmpty(MapResponses))

\* C3 witness: the reduce call of a two-chunk document is running, with two
\* different partial summaries
C3_Witness ==
  /\ MultiChunk /\ NChunks = 2 /\ site = "reduce" /\ pc = "call"
  /\ Len(chunk_summaries) = 2 /\ chunk_summaries[1] # chunk_summaries[2]

\* the number of map responses so far that have no text (None or "")
EmptyMapResponses ==
  Cardinality({k \in 1..Len(MapResponses) :
                 MapResponses[k].is_none \/ MapResponses[k].text = <<>>})

\* C4 (as claimed): a map call answered with an empty response adds nothing to
\* the partial summaries and does not abort the pipeline: each chunk's call is
\* issued once, and when all N map calls have been answered, some of them with
\* an empty response, the reduce call is issued.
C4_EmptyMapSkipped ==
  MultiChunk =>
    /\ Len(chunk_summaries) = Len(MapResponses) - EmptyMapResponses
    /\ (site = "map" /\ pc \in {"call", "sleep"}) => ncalls = i
    /\ (EmptyMapResponses > 0 /\ Len(MapResponses) = NChunks /\ pc # "sleep") =>
         (site = "reduce" /\ ncalls = NChunks + 1 /\ err \in {"None"} \cup ServiceErrors)

\* C4 for the three recognized selectors only (not a claim's formula: it shows
\* that the unrecognized selector is the only way C4_EmptyMapSkipped fails)
C4_EmptyMapSkippedRecognized == length \in Recognized => C4_EmptyMapSkipped

\* a run in which C4's case happens: a two-chunk run with a recognized selector
\* returned although a map response was empty
C4_RecognizedReached ==
  /\ MultiChunk /\ NChunks = 2 /\ pc = "returned" /\ length \in Recognized
  /\ EmptyMapResponses > 0

\* C5: when a Gateway call of generate_summary (single, map or reduce) fails on
\* all its attempts, generate_summary raises that failure and returns nothing,
\* and once it has raised no further call or request is made.
C5_GatewayFailurePropagates ==
  /\ []((Summarizing /\ Exhausted) =>
          (pc = "raised" /\ err = attempt_log[MAX_RETRIES] /\ result = <<>>))
  /\ [][(Summarizing /\ pc = "raised") =>
          (pc' = "raised" /\ ncalls' = ncalls /\ nrequests' = nrequests)]_vars

\* C5 witness: the second map call failed three times after the first returned
C5_Witness ==
  /\ Summarizing /\ Exhausted /\ site = "map" /\ i = 2 /\ pc = "raised"
  /\ Len(chunk_summaries) = 1

\* the reduce call of generate_summary was answered, with a text that is empty
\* once trimmed (no text, "", or whitespace only)
ReduceAnsweredEmpty ==
  /\ MultiChunk /\ site = "reduce" /\ CallReturned
  /\ \A k \in 1..Len(LastResponse.text) : IsSpace(LastResponse.text[k])

FirstThreeJoined == join(<<NL, NL>>, SubSeq(chunks, 1, Min(3, NChunks)))

\* the document context in answer_question's prompt
Context == contents[1].body

\* the code points occurring in s
Chars(s) == {s[k] : k \in 1..Len(s)}

\* C7: answer_question issues exactly one Gateway call whatever the number of
\* chunks; with one chunk the context is that chunk; with more, every character
\* of the context comes from chunks 1..3 (or is a "\n" between them or the
\* closing ellipsis) and no word of a later chunk occurs in it.
C7_OneCallFirstThree ==
  Answering =>
    /\ ncalls = 1 /\ site = "qa" /\ Len(contents) = 1
    /\ contents[1].question = question
    /\ NChunks = 1 => Context = chunks[1]
    /\ NChunks > 1 =>
         /\ Chars(Context) \subseteq
              UNION {Chars(chunks[k]) : k \in 1..Min(3, NChunks)} \cup {NL, ELLIPSIS}
         /\ \A k \in 4..NChunks : Chars(Context) \cap Chars(chunks[k]) \subseteq {SP}
         /\ Len(Context) > 0

\* C7 witness: the answer to a question on a four-chunk document was returned
C7_Witness == Answering /\ NChunks >= 4 /\ pc = "returned" /\ nrequests >= 1

\* C8 (as claimed): in the multi-chunk path the context is at most 4000
\* characters: the first 4000 characters of the joined chunks when they are
\* longer, the joined chunks otherwise.
C8_ContextAtMost4000 ==
  (Answering /\ NChunks > 1) =>
    /\ Len(Context) <= QA_MAX_CHARS
    /\ Context = IF Len(FirstThreeJoined) > QA_MAX_CHARS
                 THEN SubSeq(FirstThreeJoined, 1, QA_MAX_CHARS)
                 ELSE FirstThreeJoined

\* C8 (amended): in the multi-chunk path the context is at most 4001
\* characters: the first 4000 characters of the joined chunks followed by one
\* ellipsis character when they are longer than 4000, the joined chunks
\* unchanged otherwise.
C8_ContextAtMost4001 ==
  (Answering /\ NChunks > 1) =>
    /\ Len(Context) <= QA_MAX_CHARS + 1
    /\ Len(FirstThreeJoined) > QA_MAX_CHARS =>
         /\ Len(Context) = QA_MAX_CHARS + 1
         /\ SubSeq(Context, 1, QA_MAX_CHARS) = SubSeq(FirstThreeJoined, 1, QA_MAX_CHARS)
         /\ Context[QA_MAX_CHARS + 1] = ELLIPSIS
    /\ Len(FirstThreeJoined) <= QA_MAX_CHARS => Context = FirstThreeJoined

\* C8 witnesses: a context that was cut, and (in C8_WitnessUncut) two chunks of
\* exactly 4000 characters that were not
C8_Witness ==
  Answering /\ NChunks > 1 /\ Len(FirstThreeJoined) = QA_MAX_CHARS + 1 /\ pc = "call"

C8_WitnessUncut ==
  Answering /\ NChunks > 1 /\ Len(FirstThreeJoined) = QA_MAX_CHARS /\ pc = "call"

\* answer_question's call was answered, with a text that is empty once trimmed
AnswerEmpty ==
  /\ Answering /\ CallReturned
  /\ \A k \in 1..Len(LastResponse.text) : IsSpace(LastResponse.text[k])

C10_AtMostThreeAttempts ==
  /\ [](/\ Len(attempt_log) <= MAX_RETRIES
        /\ attempt <= MAX_RETRIES
        /\ nrequests <= MAX_RETRIES * ncalls
        /\ (client = "Client" /\ pc = "call") => Len(attempt_log) = attempt - 1
        /\ (client = "Client" /\ Exhausted) =>
             (pc = "raised" /\ err = attempt_log[MAX_RETRIES]))
  /\ [][nrequests' # nrequests =>
          (pc = "call" /\ nrequests' = nrequests + 1 /\ Len(attempt_log) < MAX_RETRIES)]_vars
  /\ [][Exhausted => nrequests' = nrequests]_vars

\* C10 witness: _call_gemini called on its own raised the third attempt's
\* exception, which is not the exception of the first two
C10_Witness ==
  /\ op = "_call_gemini" /\ client = "Client" /\ Exhausted /\ pc = "raised"
  /\ attempt_log[1] = attempt_log[2] /\ attempt_log[3] # attempt_log[1]
  /\ err = attempt_log[3] /\ nrequests = MAX_RETRIES

\* the exceptions an attempt of _call_gemini can end with
AttemptErrors == ServiceErrors \cup {"AttributeError"}

\* C11: when the service fails on attempts 1..k-1 and answers on attempt k
\* (k <= MAX_RETRIES), _call_gemini keeps going up to attempt k, returns the
\* response of attempt k, raises none of the failures, and makes no attempt
\* after k.
C11_KeepsGoing ==
  (client = "Client" /\ attempt_log # <<>>) =>
    LET n == Len(attempt_log)
    IN /\ n <= MAX_RETRIES
       /\ \A j \in 1..(n - 1) : attempt_log[j] \in ServiceErrors
       /\ (~CallReturned /\ n < MAX_RETRIES) =>
            (pc = "call" /\ attempt = n + 1 /\ err = "None" /\ result = <<>>)
       /\ CallReturned =>
            /\ attempt = n
            /\ err \notin AttemptErrors
            /\ site = "direct" => (pc = "returned" /\ result = <<LastResponse>>)
            /\ site \in {"single", "reduce"} =>
                 (pc = "returned" /\ result = <<SummaryResult(LastResponse)>>)
            /\ site = "qa" => (pc = "returned" /\ result = <<AnswerResult(LastResponse)>>)

C11_SuccessEndsCall ==
  []C11_KeepsGoing
  /\ [][CallReturned => (nrequests' = nrequests /\ responses' = responses
                         /\ attempt_log' \in {attempt_log, <<>>})]_vars

\* two failed attempts, then the answer "a" on the third
C11_Witness ==
  /\ site = "direct" /\ pc = "returned"
  /\ Len(attempt_log) = MAX_RETRIES /\ CallReturned
  /\ attempt_log[1] \in ServiceErrors /\ attempt_log[2] \in ServiceErrors
  /\ result = <<Text(<<97>>)>> /\ nrequests = MAX_RETRIES

\* C12: with no client configured (client = None) a Gateway call fails at
\* once with NotConfigured: no request to the service, no attempt made or
\* retried, no backoff sleep; for generate_summary, answer_question and
\* _call_gemini itself.
C12_NotConfiguredFailsFast ==
  (client = "None" /\ pc # "idle") =>
    /\ nrequests = 0 /\ attempt_log = <<>> /\ slept = <<>>
    /\ Finished => (pc = "raised" /\ err = "NotConfigured")

\* what does hold: the two pipelines check the client before anything else
C12_PipelinesFailFast ==
  op \in {"generate_summary", "answer_question"} => C12_NotConfiguredFailsFast

C12_PipelineReached ==
  client = "None" /\ op \in {"generate_summary", "answer_question"} /\ pc = "raised"

\* a response whose text is None, empty or whitespace only
EmptyText(resp) == strip(TextOrEmpty(resp)) = <<>>

\* C13: an attempt on which the service returns a response is never retried,
\* also when the response text is empty or whitespace only: _call_gemini
\* starts another attempt only after an attempt raised an exception.
C13_RetriedOnlyAfterException ==
  \A j \in 1..(Len(attempt_log) - 1) : attempt_log[j] \in AttemptErrors

C13_EmptyResponseNotRetried ==
  []C13_RetriedOnlyAfterException
  /\ [][(pc = "call" /\ responses' # responses /\ EmptyText(responses'[Len(responses')]))
          => (pc' # "call" /\ attempt' = attempt /\ slept' = slept
              /\ nrequests' = nrequests + 1)]_vars
  /\ [][(CallReturned /\ EmptyText(LastResponse)) => nrequests' = nrequests]_vars

\* the service answered " " on the first attempt and the call returned it
C13_Witness ==
  /\ site = "direct" /\ pc = "returned"
  /\ attempt_log = <<"ok">> /\ result = <<Text(<<SP>>)>>
  /\ nrequests = 1 /\ slept = <<>>

\* ------------------------------------------------------ chunk_text claims
\* the whitespace-delimited words of s, read off character by character
RECURSIVE WordsOf(_)
WordsOf(s) ==
  IF s = <<>> THEN <<>>
  ELSE IF IsSpace(Head(s)) THEN WordsOf(Tail(s))
  ELSE LET ends == {k \in 1..Len(s) : IsSpace(s[k])} \cup {Len(s) + 1}
           e == CHOOSE k \in ends : \A k2 \in ends : k <= k2
       IN <<SubSeq(s, 1, e - 1)>> \o WordsOf(SubSeq(s, e, Len(s)))

\* the words of the chunks cs[1..k], chunk after chunk
RECURSIVE WordsUpTo(_, _)
WordsUpTo(cs, k) == IF k = 0 THEN <<>> ELSE WordsUpTo(cs, k - 1) \o WordsOf(cs[k])

\* chunk_text(text, max_words) has returned
Chunked == op = "chunk_text" /\ pc = "returned"

Blank(s) == \A k \in 1..Len(s) : IsSpace(s[k])

\* C14: for a non-empty text and max_words > 0 the chunks chunk_text returns
\* are an ordered, non-overlapping partition of the whitespace-delimited
\* words of the text: the chunks joined with one space are the words joined
\* with one space, every chunk has between 1 and max_words words, and every
\* chunk but the last has exactly max_words.
C14_ChunksPartitionWords ==
  (Chunked /\ text # <<>> /\ max_words > 0) =>
    LET cs == result[1]
        words == WordsOf(text)
    IN /\ WordsUpTo(cs, Len(cs)) = words
       /\ join(<<SP>>, cs) = join(<<SP>>, words)
       /\ \A k \in 1..Len(cs) :
            LET n == Len(WordsOf(cs[k]))
            IN /\ 1 <= n /\ n <= max_words
               /\ k < Len(cs) => n = max_words

\* three words cut into a chunk of two words and a chunk of one
C14_Witness ==
  /\ Chunked /\ max_words = 2
  /\ text = <<97, NL, 98, SP, 97>>
  /\ Len(result[1]) = 2 /\ result[1][1] = <<97, SP, 98>> /\ result[1][2] = <<97>>

\* C15: for the empty string and for a text of whitespace only, chunk_text
\* returns the empty list, whatever max_words > 0 is.
C15_BlankGivesNoChunks ==
  (Chunked /\ Blank(text) /\ max_words > 0) => result = << <<>> >>

C15_Witness ==
  /\ Chunked /\ max_words = MaxWords /\ result = << <<>> >>
  /\ text = <<SP, NL>>

C15_WitnessEmpty ==
  Chunked /\ max_words = 1 /\ result = << <<>> >> /\ text = <<>>

\* C16: for every text and every max_words <= 0, zero and negative, chunk_text
\* raises an invalid-argument error (ValueError) and returns no chunks.
C16_NonPositiveRejected ==
  (op = "chunk_text" /\ max_words <= 0) =>
    (pc = "raised" /\ err = "ValueError" /\ result = <<>>)

\* what does hold: max_words = 0 is rejected, by range() and for every text
C16_ZeroRejected ==
  (op = "chunk_text" /\ max_words = 0) =>
    (pc = "raised" /\ err = "ValueError" /\ result = <<>>)

C16_ZeroReached ==
  op = "chunk_text" /\ max_words = 0 /\ text = <<97, SP, 98>> /\ pc = "raised"

\* and what a negative max_words does: chunk_text returns the empty list
C16_NegativeGivesNoChunks ==
  (op = "chunk_text" /\ max_words < 0) => (pc = "returned" /\ result = << <<>> >>)

C16_NegativeReached ==
  op = "chunk_text" /\ max_words = -1 /\ text = <<97, SP, 98>> /\ pc = "returned"

\* ---------------------------------------------------- Document Store claims
\* this step completes a call of fn
Completes(fn) == done' = done + 1 /\ last'.fn = fn

HasDocument(docs, doc_id) == \E r \in docs : r.id = doc_id

\* C17: delete_document(document_id, user_id) returns False, the same value,
\* when no document has that id and when the document belongs to another
\* user; in both cases documents and qa_interactions are left unchanged, and
\* no document is ever removed by a caller who is not its owner.
C17_RefusedDeleteChangesNothing ==
  [][/\ (/\ Completes("delete_document")
         /\ ~\E r \in documents : r.id = last'.document_id /\ r.user_id = last'.user_id)
        => /\ last'.returned = "False" /\ last'.raised = "None"
           /\ documents' = documents /\ qa_interactions' = qa_interactions
     /\ \A r \in documents \ documents' :
          /\ Completes("delete_document")
          /\ last'.document_id = r.id /\ last'.user_id = r.user_id]_vars

\* a delete by a user who does not own the document, which has a Q&A row
C17_Witness ==
  /\ last.fn = "delete_document" /\ last.returned = "False"
  /\ \E r \in documents :
       /\ r.id = last.document_id /\ r.user_id # last.user_id
       /\ \E q \in qa_interactions : q.document_id = r.id

\* a delete of a document id that was never given out
C17_WitnessMissing ==
  /\ last.fn = "delete_document" /\ last.returned = "False"
  /\ last.document_id > documents_id_seq
  /\ documents # {} /\ qa_interactions # {}

\* C18: when delete_document returns True for document d, the document row d
\* and every qa_interactions row with document_id = d are gone, and the rows
\* of every other document, in both tables, are as they were.
C18_DeleteRemovesDocumentAndQA ==
  [][(Completes("delete_document") /\ last'.returned = "True") =>
       LET d == last'.document_id
       IN /\ HasDocument(documents, d) /\ ~HasDocument(documents', d)
          /\ \A q \in qa_interactions' : q.document_id # d
          /\ documents' = {r \in documents : r.id # d}
          /\ qa_interactions' = {q \in qa_interactions : q.document_id # d}]_vars

\* of documents 1 and 2, document 1 had a Q&A row and was deleted by its owner
C18_Witness ==
  /\ last.fn = "delete_document" /\ last.returned = "True" /\ last.document_id = 1
  /\ documents_id_seq = 2 /\ qa_id_seq = 1
  /\ \E r \in documents : documents = {r} /\ r.id = 2
  /\ qa_interactions = {}

\* C19: save_qa_interaction(document_id, question, answer) fails with a
\* referential-integrity error (IntegrityError) and inserts no row when no
\* document with that id exists, never created or already deleted.  (A call
\* on which the storage itself raises is left aside.)
C19_MissingDocumentRejected ==
  [][(/\ Completes("save_qa_interaction")
      /\ ~HasDocument(documents, last'.document_id)
      /\ last'.raised \notin StorageErrors)
       => (last'.raised = "IntegrityError" /\ qa_interactions' = qa_interactions)]_vars

\* what the code does: the row is inserted whether the document exists or not
C19_MissingDocumentAccepted ==
  [][(Completes("save_qa_interaction") /\ last'.raised \notin StorageErrors)
       => /\ last'.raised = "None"
          /\ qa_interactions' =
               qa_interactions \cup {QARow(qa_id_seq + 1, last'.document_id, "q", "a")}
          /\ Cardinality(qa_interactions') = Cardinality(qa_interactions) + 1]_vars

\* a Q&A row was saved for a document that had been deleted
C19_DeletedReached ==
  /\ last.fn = "save_qa_interaction" /\ last.raised = "None"
  /\ last.document_id <= documents_id_seq
  /\ ~HasDocument(documents, last.document_id)
  /\ \E q \in qa_interactions : q.document_id = last.document_id

\* C20: in every state reached by any sequence or interleaving of
\* save_document, save_qa_interaction and delete_document calls, every
\* qa_interactions row references a documents row that exists.
C20_NoOrphanQA ==
  \A q \in qa_interactions : HasDocument(documents, q.document_id)

\* what does hold: delete_document itself leaves no row of its document behind
C20_DeleteLeavesNoOrphan ==
  (last.fn = "delete_document" /\ last.returned = "True") =>
    \A q \in qa_interactions : q.document_id # last.document_id

\* a Q&A row saved while another session's save_document was between two attempts
C20_InterleavedReached ==
  /\ \E c \in Callers : session[c].pc = "save_document" /\ session[c].attempt = 1
  /\ last.fn = "save_qa_interaction" /\ qa_interactions # {}

\* the functions of the Document Store that claim C21 names
StoreOperations ==
  {"save_document", "get_user_documents", "save_qa_interaction",
   "get_document_qa_history", "delete_document"}

\* C21: every Document Store operation (save_document, get_user_documents,
\* save_qa_interaction, get_document_qa_history, delete_document) retries a
\* storage failure up to 3 attempts: a call that ends on a storage failure
\* has made 3 attempts and raises that failure to its caller.
C21_EveryOperationRetries ==
  (last.fn \in StoreOperations /\ last.failed # "None") =>
    (last.attempts = max_retries /\ last.raised = last.failed)

\* what does hold: save_document gives up only after its third failed attempt
C21_SaveDocumentRetries ==
  /\ last.fn = "save_document" =>
       /\ 1 <= last.attempts /\ last.attempts <= max_retries
       /\ last.failed # "None" => (last.attempts = max_retries /\ last.raised = last.failed)
  /\ \A c \in Callers : session[c].attempt < max_retries

C21_SaveDocumentExhausted ==
  last.fn = "save_document" /\ last.raised \in StorageErrors /\ last.attempts = max_retries

\* and the other four make one attempt, whatever happens
C21_OthersTryOnce ==
  (last.fn \in StoreOperations \ {"save_document"}) =>
    /\ last.attempts = 1
    /\ last.fn # "save_qa_interaction" => last.raised = "None"

\* the attributes a caller of save_document supplies, as the model's callers do
Supplied(r, user_id) ==
  /\ r.user_id = user_id /\ r.filename = "a.pdf" /\ r.content = "text"
  /\ r.summary = "summary" /\ r.file_size = 4

\* C22: save_document is atomic across its retry loop: a call either adds
\* exactly one documents row holding the supplied owner, filename, content,
\* summary and size and returns that row's id, or raises after 3 failed
\* attempts and adds no row; a failed attempt leaves no row behind, so a call
\* that gets through on a retry creates no duplicate.
C22_SaveDocumentAtomic ==
  [][/\ (\E r \in documents' : r \notin documents) =>
          /\ Completes("save_document") /\ last'.raised = "None"
     /\ Completes("save_document") =>
          IF last'.raised = "None"
          THEN /\ last'.returned = "id"
               /\ \E c \in Callers :
                    /\ session[c].pc = "save_document" /\ session'[c].pc = "idle"
                    /\ \E r \in documents' :
                         /\ documents' = documents \cup {r}
                         /\ \A r2 \in documents : r2.id # r.id
                         /\ r.id = last'.document_id
                         /\ Supplied(r, session[c].user_id)
                         /\ last'.user_id = session[c].user_id
          ELSE /\ last'.attempts = max_retries
               /\ documents' = documents]_vars

\* a save_document that failed twice and got through on its third attempt,
\* while another session saved a document: two rows, not more
C22_Witness ==
  /\ last.fn = "save_document" /\ last.raised = "None" /\ last.attempts = max_retries
  /\ last.document_id = 2 /\ Cardinality(documents) = 2 /\ done = 2

C23_TieReached ==
  /\ last.fn = "get_user_documents" /\ last.failed = "None"
  /\ Len(last.rows) = 2
  /\ last.rows[1].created_at = last.rows[2].created_at
  /\ last.rows[1].id < last.rows[2].id

\* C24: across any sequence of store operations a stored document's id,
\* owner, filename, content and summary never change between its creation by
\* save_document and its removal by delete_document, and the ids save_document
\* returns are pairwise distinct: an id is never given to a later document,
\* also after a delete.  (documents_id_seq never decreases and bounds every id
\* given out so far, so an id above it is new.)
C24_DocumentsImmutableIdsFresh ==
  [](\A r \in documents : 1 <= r.id /\ r.id <= documents_id_seq)
  /\ [][/\ documents_id_seq' >= documents_id_seq
        /\ \A r \in documents, r2 \in documents' : r.id = r2.id => r = r2
        /\ \A r \in documents, r2 \in documents : r.id = r2.id => r = r2
        /\ \A r \in documents \ documents' :
             /\ Completes("delete_document") /\ last'.returned = "True"
             /\ last'.document_id = r.id
        /\ \A r \in documents' \ documents :
             /\ Completes("save_document") /\ last'.document_id = r.id
             /\ r.id > documents_id_seq
        /\ (Completes("save_document") /\ last'.raised = "None") =>
             last'.document_id > documents_id_seq]_vars

\* document 1 was saved and deleted; the next save_document returned 2, not 1
C24_Witness ==
  /\ last.fn = "save_document" /\ last.raised = "None" /\ last.document_id = 2
  /\ \E r \in documents : documents = {r} /\ r.id = 2
  /\ done = 3

\* ------------------------------------------------ upload and analyze claims
\* st.session_state['qa_history'], the empty list when the key is absent
History(ss) == IF "qa_history" \in DOMAIN ss THEN ss["qa_history"] ELSE <<>>

\* the row save_qa_interaction inserted last is the exchange of this run for
\* the session's current document
ExchangeStored ==
  \E r \in qa_interactions :
    /\ r.id = qa_id_seq
    /\ r.document_id = session_state["current_doc_id"]
    /\ r.question = run.question /\ r.answer = run.answer[1]

\* C25: in the Q&A flow of the page, every answer_question call that returns
\* is followed by exactly one save_qa_interaction call with the same question
\* and answer for the session's current document, and only after that insert
\* succeeded is the exchange appended to qa_history; when answer_question
\* raises, no row is inserted and qa_history stays as it was; when the insert
\* raises, qa_history stays as it was too.
C25_AnswerSavedThenRemembered ==
  [][/\ run.pc = "answer_question" =>
          /\ UNCHANGED <<qa_interactions, session_state>>
          /\ run'.pc \in {"save_qa_interaction", "idle"}
          /\ run'.pc = "save_qa_interaction" => run'.answer # <<>>
     /\ run.pc = "save_qa_interaction" =>
          /\ UNCHANGED session_state
          /\ \/ /\ run'.pc = "append"
                /\ \E r \in qa_interactions' \ qa_interactions :
                     /\ qa_interactions' = qa_interactions \cup {r}
                     /\ r.document_id = session_state["current_doc_id"]
                     /\ r.question = run.question /\ r.answer = run.answer[1]
             \/ /\ run'.pc = "idle"
                /\ UNCHANGED qa_interactions
     /\ qa_interactions' # qa_interactions => run.pc = "save_qa_interaction"
     /\ run.pc = "append" =>
          /\ ExchangeStored
          /\ UNCHANGED qa_interactions
          /\ run'.pc = "idle"
          /\ History(session_state') =
               Append(History(session_state), HistoryEntry(run.question, run.answer[1]))
     /\ (History(session_state') # History(session_state) /\ session_state' # NoKeys)
          => run.pc = "append"]_vars

\* one question was answered, stored for document 1 and remembered
C25_Witness ==
  /\ run.pc = "idle"
  /\ History(session_state) = <<HistoryEntry("q", "a")>>
  /\ qa_interactions = {QARow(1, 1, "q", "a")}

\* answer_question raised: the run is over with no answer, no row, no entry
C25_AnswerRaisedReached ==
  /\ run.pc = "idle" /\ run.question = "q" /\ run.answer = <<>>
  /\ "qa_history" \in DOMAIN session_state
  /\ History(session_state) = <<>> /\ qa_interactions = {}

\* ------------------------------------------------------------ Gateway claims
\* the attempts of the running (or last) call that raised
FailedAttempts == {n \in DOMAIN attempt_log : attempt_log[n] # "ok"}

\* C26: _call_gemini backs off linearly: after the failure of attempt n
\* (n = 1, 2) it sleeps n * RETRY_SLEEP, 1.0 s and then 2.0 s, before attempt
\* n + 1, so the delays strictly increase; it does not sleep after the third
\* failed attempt nor after an attempt that succeeded.
C26_LinearBackoff ==
  /\ Len(slept) = IF Cardinality(FailedAttempts) < 3 THEN Cardinality(FailedAttempts) ELSE 2
  /\ \A n \in DOMAIN slept : n \in FailedAttempts /\ slept[n] = n * 1000
  /\ \A n \in DOMAIN slept : n + 1 \in DOMAIN slept => slept[n] < slept[n + 1]
  /\ \A n \in DOMAIN slept : n + 1 \in DOMAIN attempt_log \/ pc = "call"

\* all three attempts raised: two sleeps, 1.0 s and 2.0 s, none after the third
C26_Witness ==
  /\ pc = "raised" /\ client = "Client"
  /\ Len(attempt_log) = 3 /\ FailedAttempts = {1, 2, 3}
  /\ slept = <<1000, 2000>>

\* the second attempt succeeded: one sleep, before it, none after it
C26_SuccessReached ==
  /\ attempt_log = <<"ServerError", "ok">> /\ slept = <<1000>>

\* ----------------------------------------------------- texts without words
\* C27 (as claimed): generate_summary on a text with no words does not take
\* the single-chunk path: it issues no map call and exactly one Gateway call,
\* the combine call, whose prompt carries an empty list of partial summaries,
\* and returns that call's trimmed response; answer_question on such a text
\* takes the multi-chunk path with an empty context and issues exactly one
\* Gateway call.
C27_NoWordsOneCall ==
  /\ (Summarizing /\ Blank(text)) =>
       /\ chunks = <<>> /\ chunk_summaries = <<>>
       /\ ncalls = 1 /\ site = "reduce"
       /\ contents[1].body = <<>>
       /\ pc = "returned" => result = <<strip(TextOrEmpty(LastResponse))>>
  /\ (Answering /\ Blank(text)) =>
       /\ chunks = <<>>
       /\ ncalls = 1 /\ site = "qa"
       /\ contents[1].body = <<>> /\ contents[1].question = question
       /\ pc = "returned" => result = <<strip(TextOrEmpty(LastResponse))>>

\* C27 for the three recognized selectors only (not a claim's formula: it
\* shows that the unrecognized selector is the only way C27_NoWordsOneCall
\* fails)
C27_NoWordsOneCallRecognized == length \in Recognized => C27_NoWordsOneCall

\* generate_summary(" \n", recognized) returned "b", the combine call's answer
\* " b\n" trimmed
C27_RecognizedReached ==
  /\ Summarizing /\ text = <<SP, NL>> /\ length \in Recognized
  /\ pc = "returned" /\ site = "reduce" /\ ncalls = 1
  /\ result = <<(<<98>>)>>

\* answer_question(" \n", q) returned after one call with an empty context
C27_AnswerReached ==
  /\ Answering /\ text = <<SP, NL>> /\ pc = "returned" /\ ncalls = 1
  /\ contents[1].body = <<>>

\* ------------------------------------------------- delete_document failures
\* C28: delete_document never raises: when a statement of it (the ownership
\* query, the delete of the Q&A rows, the delete of the document row, the
\* commit) raises a storage exception it returns False and leaves both tables
\* unchanged; it never leaves a document whose Q&A rows were removed while the
\* document row remains.  (So a False result does not by itself tell that the
\* document is absent or not owned: see the witness.)
C28_DeleteFailureChangesNothing ==
  [][/\ Completes("delete_document") =>
          /\ last'.raised = "None"
          /\ last'.returned \in {"True", "False"}
          /\ last'.failed # "None" =>
               /\ last'.returned = "False"
               /\ documents' = documents /\ qa_interactions' = qa_interactions
     /\ \A r \in documents \cap documents' :
          \A q \in qa_interactions : q.document_id = r.id => q \in qa_interactions']_vars

\* delete_document returned False because a statement raised, for a document
\* that exists, belongs to the caller and has a Q&A row; both are still there
C28_Witness ==
  /\ last.fn = "delete_document" /\ last.returned = "False"
  /\ last.failed # "None" /\ last.raised = "None"
  /\ \E r \in documents :
       /\ r.id = last.document_id /\ r.user_id = last.user_id
       /\ \E q \in qa_interactions : q.document_id = r.id

\* ------------------------------------------------------ upload page claims
\* the three keys the upload handler sets
DocKeys == {"current_doc_id", "current_doc_content", "current_summary"}

\* the part of st.session_state under those keys
DocState(ss) == [k \in DOMAIN ss \cap DocKeys |-> ss[k]]

\* C29: in the upload page a document is persisted only after generate_summary
\* has returned, with the summary it returned; current_doc_id,
\* current_doc_content and current_summary are set only after save_document
\* has returned an id, to that id, the uploaded text and that summary; in
\* every reachable session state, current_doc_content present implies
\* current_doc_id present and an id save_document returned in this session;
\* a failure of check_gemini_service, generate_summary or save_document
\* leaves the three keys as they were.
C29_SessionKeysFollowSave ==
  /\ []("current_doc_content" \in DOMAIN session_state =>
          /\ "current_doc_id" \in DOMAIN session_state
          /\ session_state["current_doc_id"] \in issued)
  /\ [][/\ documents' # documents =>
             /\ run.summary # <<>>
             /\ \E r \in documents' \ documents :
                  /\ documents' = documents \cup {r}
                  /\ r.summary = run.summary[1] /\ r.content = run.extracted_text
                  /\ run'.doc_id = <<r.id>> /\ r.id \in issued' \ issued
        /\ issued' # issued => documents' # documents
        /\ (DocState(session_state') # DocState(session_state) /\ session_state' # NoKeys) =>
             /\ run.doc_id # <<>> /\ run.doc_id[1] \in issued
             /\ DOMAIN DocState(session_state') = DocKeys
             /\ session_state'["current_doc_id"] = run.doc_id[1]
             /\ session_state'["current_doc_content"] = run.extracted_text
             /\ session_state'["current_summary"] = run.summary[1]
        /\ (run.pc \in {"check_gemini_service", "generate_summary", "save_document"}
              /\ run'.pc = "idle") =>
             /\ UNCHANGED <<session_state, documents, issued>>
             /\ run'.doc_id = <<>>]_vars

\* a second upload failed in save_document: the session still holds the first
\* document, whose id save_document returned
C29_Witness ==
  /\ run.pc = "idle" /\ run.extracted_text = "more" /\ run.summary # <<>>
  /\ run.doc_id = <<>>
  /\ DOMAIN session_state = DocKeys \cup {"qa_history"}
  /\ session_state["current_doc_id"] = 1 /\ issued = {1}
  /\ session_state["current_doc_content"] = "text"
  /\ \E r \in documents : documents = {r} /\ r.id = 1 /\ r.content = "text"

\* -------------------------------------------------------- create_user claims
\* the caller whose create_user call ends with this step
Ends(c) == creating[c].pc # "idle" /\ creating'[c].pc = "idle"

\* C30: create_user is an idempotent upsert that is safe under interleaving:
\* at any time users holds at most one row for a user id, and after a
\* create_user(u) call that returned, alone or among concurrent calls, exactly
\* one; no row is ever removed.  On the update-then-insert path a call whose
\* INSERT hits the UNIQUE constraint because another call inserted first is
\* retried and returns without raising, provided storage stays reachable in
\* its attempts: a call raises only if an attempt of it failed on storage.
C30_CreateUserIdempotent ==
  /\ [](\A u \in Users : Cardinality({r \in users : r.user_id = u}) <= 1)
  /\ [][/\ \A r \in users : \E r2 \in users' : r2.id = r.id /\ r2.user_id = r.user_id
        /\ \A c \in Callers : Ends(c) =>
             /\ last'.fn = "create_user" /\ last'.user_id = creating[c].user_id
             /\ last'.raised = "None" =>
                  Cardinality({r \in users' : r.user_id = last'.user_id}) = 1
             /\ last'.raised # "None" =>
                  /\ last'.attempts = 3
                  /\ \E n \in DOMAIN creating'[c].errors :
                       creating'[c].errors[n] \in StorageErrors
        /\ \A c \in Callers :
             (creating[c].pc = "insert" /\ users' = users
                /\ \E r \in users : r.user_id = creating[c].user_id
                /\ Len(creating'[c].errors) > Len(creating[c].errors)
                /\ creating[c].errors = <<>>)
               => creating'[c].pc = "attempt"]_vars

\* both callers found no row for u1; one inserted it, the other hit the
\* UNIQUE constraint, tried again and returned: one row
C30_Witness ==
  /\ dialect = "sqlite"
  /\ last.fn = "create_user" /\ last.raised = "None" /\ last.attempts = 2
  /\ \E c \in Callers : creating[c].pc = "idle" /\ creating[c].errors = <<"IntegrityError">>
  /\ Cardinality(users) = 1 /\ \A r \in users : r.user_id = "u1"
  /\ done = 2

\* the same two calls on PostgreSQL: one row, no retry
C30_UpsertReached ==
  /\ dialect = "postgresql"
  /\ last.fn = "create_user" /\ last.raised = "None" /\ last.attempts = 1
  /\ Cardinality(users) = 1 /\ done = 2

====
